---- MODULE Spec2Model ----
(***************************************************************************)
(* Derivative-free policy optimisation: the population trainer of          *)
(* ReinforcementLearning/RL_PopulationMethod.py and the zeroth-order       *)
(* trainer of ReinforcementLearning/RL_ZerothOrder.py.                     *)
(*                                                                         *)
(* Real numbers (rewards, scores, parameter values) are exact rationals    *)
(* <<n, d>> with d >= 0: d = 0 encodes the non-finite floats               *)
(* (<<-1,0>> = -inf, <<1,0>> = +inf, <<0,0>> = NaN).  A policy object is a  *)
(* heap cell holding one value per named parameter tensor; variables such  *)
(* as policy and candidate hold references (object ids), as in Python.     *)
(*                                                                         *)
(* The population trainer is run twice in lock step (runs 1 and 2): both   *)
(* runs read the same numpy and torch random streams (same global seed),   *)
(* and each run owns its simulation.  The zeroth-order trainer is one run. *)
(*                                                                         *)
(* Spec follows the trainers, a call of evaluate_policy being one step     *)
(* that returns or raises.  EvalSpec follows one call of evaluate_policy   *)
(* env.step by env.step, under the TimeLimit wrapper, against a simulation *)
(* that is free to end an episode or not and to give any reward.           *)
(***************************************************************************)
EXTENDS Integers, Sequences, FiniteSets, TLC

\* ---------------------------------------------------------------- bounds
\* The configured generation count (EPISODES, NUM_EPISODES) ranges over
\* 1..MaxGen, population_size over -1..MaxPop, eval_episodes over -1..MaxEpisodes.
MaxGen == 3
MaxPop == 3
MaxEpisodes == 2
\* A run of the population trainer makes at most MaxWork calls, counting each
\* population_method call and each candidate's evaluate_policy call:
\* (population_size + 1) * generations.
MaxWork == 6
\* np.random.randint(0, 2**31 - 1) scaled down to 0..MaxSeed.
MaxSeed == 1
\* The entropy an unseeded simulation generator starts from: 0..MaxEntropy.
MaxEntropy == 1
\* A simulation reports done after 1..MaxLanding steps of an episode, or never.
MaxLanding == 2

\* ------------------------------------------------------------ Python values
\* None, for an optional seed (seeds are >= 0).
None == -1
\* None, for an object reference (object ids are >= 1).
NoObject == 0
\* A simulation generator that was never seeded nor used.
Uninit == -1

\* ------------------------------------------------------- exact arithmetic
RECURSIVE GCD(_, _)
GCD(a, b) == IF b = 0 THEN a ELSE GCD(b, a % b)

Abs(x) == IF x < 0 THEN -x ELSE x

Sign(x) == IF x < 0 THEN -1 ELSE IF x > 0 THEN 1 ELSE 0

\* n / d as a value: lowest terms, d > 0; x / 0 is not formed here (Python
\* raises ZeroDivisionError before).
Rat(n, d) ==
    LET g == GCD(Abs(n), Abs(d))
        s == Sign(d)
    IN  IF d = 0 THEN <<Sign(n), 0>> ELSE <<(s * n) \div g, (s * d) \div g>>

Num(x) == x[1]
Den(x) == x[2]
FromInt(k) == <<k, 1>>
NegInf == <<-1, 0>>
PosInf == <<1, 0>>
NaN == <<0, 0>>
IsNaN(x) == x = NaN
IsFinite(x) == Den(x) > 0

RNeg(x) == <<-Num(x), Den(x)>>

RAdd(x, y) ==
    IF IsFinite(x) /\ IsFinite(y)
    THEN Rat(Num(x) * Den(y) + Num(y) * Den(x), Den(x) * Den(y))
    ELSE IF IsNaN(x) \/ IsNaN(y) THEN NaN
    ELSE IF IsFinite(x) THEN y
    ELSE IF IsFinite(y) THEN x
    ELSE IF x = y THEN x ELSE NaN

RSub(x, y) == RAdd(x, RNeg(y))

RAbs(x) == <<Abs(Num(x)), Den(x)>>

RMul(x, y) ==
    IF IsFinite(x) /\ IsFinite(y)
    THEN Rat(Num(x) * Num(y), Den(x) * Den(y))
    ELSE IF IsNaN(x) \/ IsNaN(y) \/ Num(x) = 0 \/ Num(y) = 0 THEN NaN
    ELSE <<Sign(Num(x)) * Sign(Num(y)), 0>>

\* x > y on floats: false whenever a NaN takes part.
RGt(x, y) ==
    IF IsNaN(x) \/ IsNaN(y) THEN FALSE
    ELSE IF ~IsFinite(x) /\ ~IsFinite(y) THEN Num(x) > Num(y)
    ELSE Num(x) * Den(y) > Num(y) * Den(x)

RLt(x, y) == RGt(y, x)
RGe(x, y) == ~IsNaN(x) /\ ~IsNaN(y) /\ ~RGt(y, x)

\* Python's max(a, b): b if b > a else a.
PyMax(a, b) == IF RGt(b, a) THEN b ELSE a

\* ------------------------------------------------------------- parameters
\* The named parameter tensors of a PolicyNet, in named_parameters() order
\* (two of the four: one weight, one bias).
Names == {1, 2}

\* The values torch.randn_like draws, scaled down to two.
RandnDraws == {-1, 1}

\* The parameter values PolicyNet.__init__ leaves (fixed by torch.manual_seed).
InitialParams == [n \in Names |-> FromInt(2 - n)]

\* ----------------------------------------------------------- the simulation
\* A number the simulation's course depends on the policy through.
Code(params) == Num(params[1]) + 2 * Num(params[2]) + Den(params[1]) + Den(params[2])

\* One episode (reset, then step until done or truncated): the sum of its
\* rewards, a function of the policy and of the generator state at reset.
Rollout(params, start) == ((Code(params) + 2 * start) % 5) - 2

\* The state the episode leaves the simulation's generator in: the episode
\* consumed one or two draws, depending on the policy's actions.
Advance(params, start) == (start + 1 + (Code(params) % 2)) % 5

\* self.env.reset(seed=arg): the generator state the episode starts from.
\* A seed re-creates the generator; None keeps the generator, which is created
\* from operating-system entropy `ent` when it does not exist yet.
ResetState(arg, rng, ent) ==
    IF arg # None THEN arg
    ELSE IF rng = Uninit THEN ent
    ELSE rng

\* ------------------------------------------------------------ evaluate_policy
\* `seed` as a condition (`if seed`): None and 0 are both false.
Truthy(seed) == seed # None /\ seed # 0

\* The argument of reset for episode i (from 0).
ResetSeed(seed, i) == IF Truthy(seed) THEN seed + i ELSE None

\* The loop of evaluate_policy from episode i on.  acc holds total_reward, the
\* generator state and (for the record) every reset's argument and start state.
RECURSIVE EpisodeLoop(_, _, _, _, _, _)
EpisodeLoop(params, episodes, seed, ent, i, acc) ==
    IF i >= episodes THEN acc
    ELSE LET arg == ResetSeed(seed, i)
             start == ResetState(arg, acc.rng, ent)
         IN  EpisodeLoop(params, episodes, seed, ent, i + 1,
                 [total |-> acc.total + Rollout(params, start),
                  rng |-> Advance(params, start),
                  resets |-> Append(acc.resets, arg),
                  starts |-> Append(acc.starts, start)])

\* evaluate_policy(policy_net, episodes, seed) on a simulation whose generator
\* is in state rng: the call's outcome.  0.0 / 0 raises ZeroDivisionError.
EvaluatePolicy(params, episodes, seed, rng, ent) ==
    LET acc == EpisodeLoop(params, episodes, seed, ent, 0,
                   [total |-> 0, rng |-> rng, resets |-> <<>>, starts |-> <<>>])
    IN  [raised |-> episodes = 0,
         score |-> IF episodes = 0 THEN NaN ELSE Rat(acc.total, episodes),
         rng |-> acc.rng,
         params |-> params,
         seed |-> seed,
         resets |-> acc.resets,
         starts |-> acc.starts]

\* ------------------------------------------------------------------ state
VARIABLES
    strategy,         \* "pop": RL_PopulationMethod.train, "zo": RL_ZerothOrder.train
    generations,      \* EPISODES / NUM_EPISODES
    population_size,  \* POPULATION_SIZE
    std_dev,          \* STD_DEV / PERT_STD_DEV
    eval_episodes,    \* EVAL_EPISODES / NUM_EVALUATIONS_PER_EPISODE
    learning_rate,    \* LEARNING_RATE
    pc,               \* where the trainer is
    exception,        \* the exception that ended the run, "" if none
    ep,               \* train's loop variable (ep / episode)
    i,                \* population_method: candidates handled so far
    seed,             \* population_method: the generation's shared seed
    perturbations,    \* zeroth_order: name -> recorded noise
    heap,             \* per run: object id -> parameter values
    policy,           \* per run: reference held by train's `policy`
    candidate,        \* per run: population_method's `candidate`
    best_candidate,   \* per run: population_method's `best_candidate`
    policy_pos,       \* per run: zeroth_order's `policy_pos`
    policy_neg,       \* per run: zeroth_order's `policy_neg`
    score,            \* per run: population_method's `score`
    best_score,       \* per run: population_method's `best_score`
    pos_score,        \* per run: zeroth_order's `pos_score`
    neg_score,        \* per run: zeroth_order's `neg_score`
    reward,           \* per run: train's `reward`
    log,              \* per run: the lines EpisodeLogger.write has written
    best_reward,      \* per run: train's best_reward
    worst_reward,     \* per run: train's worst_reward
    best_episode,     \* per run: train's best_episode
    worst_episode,    \* per run: train's worst_episode
    rng,              \* per run: state of the simulation's generator
    saved,            \* per run: what torch.save has written
    evaluated,        \* per run: the evaluate_policy calls of the step whose
                      \*          reward is not logged yet
    best_index,       \* per run: which candidate (from 1) best_candidate is,
                      \*          until the reward is logged
    entry_params      \* per run: the values the live policy held when the
                      \*          zeroth_order call whose reward is not logged
                      \*          yet was entered

\* One call of evaluate_policy(policy_net, eval_episodes), step by step.
VARIABLES
    epc,              \* where the call is; "idle" while the trainers are followed
    episode,          \* evaluate_policy's loop variable i
    elapsed_steps,    \* TimeLimit._elapsed_steps
    done,             \* evaluate_policy's `done`
    truncated,        \* evaluate_policy's `truncated`
    total_reward,     \* evaluate_policy's total_reward
    result,           \* the value the call returned
    lands_in,         \* the simulation: steps left until it reports done,
                      \*                 None if it never does in this episode
    steps,            \* env.step calls made by the call so far
    nonfinite         \* whether some env.step of the call gave a non-finite reward

evalVars == <<epc, episode, elapsed_steps, done, truncated, total_reward, result,
              lands_in, steps, nonfinite>>

config == <<strategy, generations, population_size, std_dev, eval_episodes,
            learning_rate>>
popLocals == <<i, seed, candidate, best_candidate, score, best_score, best_index>>
zoLocals == <<perturbations, policy_pos, policy_neg, pos_score, neg_score>>
trainLocals == <<ep, reward, log, best_reward, worst_reward, best_episode,
                 worst_episode, saved>>
vars == <<config, pc, exception, popLocals, zoLocals, trainLocals, heap, policy,
          rng, evaluated, entry_params, evalVars>>

\* The runs modelled: two of the population trainer, one of the zeroth-order one.
Runs == IF strategy = "pop" THEN {1, 2} ELSE {1}

ObjIds == {1, 2, 3}
Generations == 1 .. MaxGen
PopSizes == -1 .. MaxPop
EpisodeCounts == -1 .. MaxEpisodes
StdDevs == {0, 1}
LearningRates == {0, 1}
Seeds == 0 .. MaxSeed
Entropy == 0 .. MaxEntropy

\* The value of a heap cell no reference reaches.
Garbage == [n \in Names |-> FromInt(0)]

\* The id a newly created object gets: the least one no live reference holds.
FreshId(live) == CHOOSE o \in ObjIds \ live : \A q \in ObjIds \ live : o <= q

\* What the operating system's entropy can seed run r's generator with, in a
\* call of evaluate_policy(_, episodes, seed): read only by an unseeded first
\* reset of a generator that does not exist yet.
EntropyDraws(episodes, s) ==
    [Runs -> IF episodes >= 1 /\ ~Truthy(s) /\ (\E r \in Runs : rng[r] = Uninit)
             THEN Entropy ELSE {0}]

\* Reference counting: cells no live reference reaches are freed.
Collect(h, live) == [o \in ObjIds |-> IF o \in live THEN h[o] ELSE Garbage]

\* ------------------------------------------------------------ PolicyNet.clone
\* copy.deepcopy(self): the reference returned, `fresh` being a new object.
CloneRefAliased(self, fresh) == self

CloneRef(self, fresh) == fresh

\* The heap after self.clone() returned ref: the copy holds self's values.
Clone(h, self, ref) == [h EXCEPT ![ref] = h[self]]

\* torch.randn_like(param) * std_dev, per name, from the draws z.
Noise(z, std) == [n \in Names |-> FromInt(z[n] * std)]

\* param + noise
PlusNoise(param, noise) == RAdd(param, noise)

\* param - noise
MinusNoiseFlipped(param, noise) == RAdd(param, noise)

MinusNoise(param, noise) == RSub(param, noise)

\* population_method lines 87-89, from name n on:
\*     candidate.state_dict()[name].copy_(param + noise)
\* with param read from the object src and written to the object dst.
RECURSIVE PerturbLoop(_, _, _, _, _)
PerturbLoop(h, dst, src, noise, n) ==
    IF n \notin Names THEN h
    ELSE PerturbLoop([h EXCEPT ![dst][n] = PlusNoise(h[src][n], noise[n])],
                     dst, src, noise, n + 1)

\* zeroth_order lines 90-94, from name n on: the positive copy is written, then
\* the negative one, each from param as it is read at that moment.
AntitheticLoopInPlace(h, pos, neg, src, noise, n) ==
    [h EXCEPT ![src] = [m \in Names |-> PlusNoise(h[src][m], noise[m])]]

RECURSIVE AntitheticLoop(_, _, _, _, _, _)
AntitheticLoop(h, pos, neg, src, noise, n) ==
    IF n \notin Names THEN h
    ELSE LET h1 == [h EXCEPT ![pos][n] = PlusNoise(h[src][n], noise[n])]
             h2 == [h1 EXCEPT ![neg][n] = MinusNoise(h1[src][n], noise[n])]
         IN  AntitheticLoop(h2, pos, neg, src, noise, n + 1)

\* ------------------------------------------------------------------- Init
\* The state train() starts its loop in.
TrainInit ==
    /\ strategy \in {"pop", "zo"}
    /\ generations \in Generations
    /\ population_size \in (IF strategy = "pop" THEN PopSizes ELSE {0})
    /\ (population_size + 1) * generations <= MaxWork
    /\ std_dev \in StdDevs
    /\ eval_episodes \in EpisodeCounts
    /\ learning_rate \in (IF strategy = "zo" THEN LearningRates ELSE {0})
    /\ pc = "train_loop"
    /\ exception = ""
    /\ ep = 1
    /\ i = 0
    /\ seed = None
    /\ perturbations = Garbage
    /\ heap = [r \in Runs |-> [o \in ObjIds |-> IF o = 1 THEN InitialParams ELSE Garbage]]
    /\ policy = [r \in Runs |-> 1]
    /\ candidate = [r \in Runs |-> NoObject]
    /\ best_candidate = [r \in Runs |-> NoObject]
    /\ policy_pos = [r \in Runs |-> NoObject]
    /\ policy_neg = [r \in Runs |-> NoObject]
    /\ score = [r \in Runs |-> NaN]
    /\ best_score = [r \in Runs |-> NegInf]
    /\ pos_score = [r \in Runs |-> NaN]
    /\ neg_score = [r \in Runs |-> NaN]
    /\ reward = [r \in Runs |-> NaN]
    /\ log = [r \in Runs |-> <<>>]
    /\ best_reward = [r \in Runs |-> NegInf]
    /\ worst_reward = [r \in Runs |-> PosInf]
    /\ best_episode = [r \in Runs |-> -1]
    /\ worst_episode = [r \in Runs |-> -1]
    /\ rng = [r \in Runs |-> Uninit]
    /\ saved = [r \in Runs |-> <<>>]
    /\ evaluated = [r \in Runs |-> <<>>]
    /\ best_index = [r \in Runs |-> 0]
    /\ entry_params = [r \in Runs |-> Garbage]

\* evaluate_policy's variables before the call's first statement (line 27 has
\* run: total_reward = 0.0); TimeLimit has counted no step yet.
EvalEntry ==
    /\ episode = 0
    /\ elapsed_steps = None
    /\ done = FALSE
    /\ truncated = FALSE
    /\ total_reward = FromInt(0)
    /\ result = NaN
    /\ lands_in = None
    /\ steps = 0
    /\ nonfinite = FALSE

Init == TrainInit /\ EvalEntry /\ epc = "idle"

\* --------------------------------------------------------------- exceptions
\* Where control goes when evaluate_policy, called at `where`, raises: no
\* try statement encloses the call in the optimizer step nor in train, so the
\* exception leaves train and ends the run.
Retried(where) == where

Propagate(where) == "raised"

\* ------------------------------------------------------ population_method
\* score > best_score
BetterReversed(s, best) == RLt(s, best)

BetterOrEqual(s, best) == RGe(s, best)

BetterAndPositive(s, best) == RGt(s, best) /\ RGt(s, FromInt(0))

Better(s, best) == RGt(s, best)

\* train line 120 calls population_method; lines 80-82 run.
PopulationMethodCall ==
    /\ strategy = "pop"
    /\ pc = "train_loop"
    /\ ep <= generations
    /\ \E s \in Seeds : seed' = s
    /\ i' = 0
    /\ best_score' = [r \in Runs |-> NegInf]
    /\ best_candidate' = [r \in Runs |-> NoObject]
    /\ best_index' = [r \in Runs |-> 0]
    /\ evaluated' = [r \in Runs |-> <<>>]
    /\ pc' = "pm_loop"
    /\ UNCHANGED <<evalVars, entry_params, config, exception, candidate, score, zoLocals, trainLocals,
                   heap, policy, rng>>

\* Lines 85-89: the next candidate is cloned from policy and perturbed.
PopulationPerturb ==
    /\ pc = "pm_loop"
    /\ i < population_size
    /\ \E z \in [Names -> RandnDraws] :
         LET ref == [r \in Runs |->
                        CloneRef(policy[r], FreshId({policy[r], best_candidate[r]}))]
         IN  /\ candidate' = ref
             /\ heap' = [r \in Runs |->
                    PerturbLoop(
                        Clone(Collect(heap[r], {policy[r], best_candidate[r]}),
                              policy[r], ref[r]),
                        ref[r], policy[r], Noise(z, std_dev), 1)]
    /\ pc' = "pm_eval"
    /\ UNCHANGED <<evalVars, entry_params, config, exception, i, seed, best_candidate, score, best_score,
                   best_index, zoLocals, trainLocals, policy, rng, evaluated>>

\* Line 92: the candidate is evaluated with the shared seed.
PopulationEvaluate ==
    /\ pc = "pm_eval"
    /\ \E ent \in EntropyDraws(eval_episodes, seed) :
         LET out == [r \in Runs |->
                        EvaluatePolicy(heap[r][candidate[r]], eval_episodes, seed,
                                       rng[r], ent[r])]
         IN  IF \E r \in Runs : out[r].raised
             THEN /\ pc' = "raised"
                  /\ exception' = "ZeroDivisionError"
                  /\ UNCHANGED <<score, rng, evaluated>>
             ELSE /\ pc' = "pm_select"
                  /\ score' = [r \in Runs |-> out[r].score]
                  /\ rng' = [r \in Runs |-> out[r].rng]
                  /\ evaluated' = [r \in Runs |-> Append(evaluated[r], out[r])]
                  /\ UNCHANGED exception
    /\ UNCHANGED <<evalVars, entry_params, config, i, seed, candidate, best_candidate, best_score,
                   best_index, zoLocals, trainLocals, heap, policy>>

\* Line 92: a rollout of the evaluation raises (env.reset, env.step or the
\* policy's forward pass).  The simulation's generator is not read again.
PopulationEvaluateRaises ==
    /\ pc = "pm_eval"
    /\ eval_episodes >= 1
    /\ pc' = Propagate(pc)
    /\ exception' = "RolloutError"
    /\ UNCHANGED <<evalVars, entry_params, config, popLocals, zoLocals,
                   trainLocals, heap, policy, rng, evaluated>>

\* Lines 93-95, and the loop's step.
PopulationSelect ==
    /\ pc = "pm_select"
    /\ best_score' = [r \in Runs |->
           IF Better(score[r], best_score[r]) THEN score[r] ELSE best_score[r]]
    /\ best_candidate' = [r \in Runs |->
           IF Better(score[r], best_score[r]) THEN candidate[r] ELSE best_candidate[r]]
    /\ best_index' = [r \in Runs |->
           IF Better(score[r], best_score[r]) THEN i + 1 ELSE best_index[r]]
    /\ i' = i + 1
    /\ pc' = "pm_loop"
    /\ UNCHANGED <<evalVars, entry_params, config, exception, seed, candidate, score, zoLocals,
                   trainLocals, heap, policy, rng, evaluated>>

\* Line 97 returns, which ends the call's local variables; line 120 binds
\* policy and reward.
PopulationMethodReturn ==
    /\ pc = "pm_loop"
    /\ i >= population_size
    /\ policy' = best_candidate
    /\ reward' = best_score
    /\ i' = 0
    /\ seed' = None
    /\ candidate' = [r \in Runs |-> NoObject]
    /\ best_candidate' = [r \in Runs |-> NoObject]
    /\ score' = [r \in Runs |-> NaN]
    /\ best_score' = [r \in Runs |-> NegInf]
    /\ heap' = [r \in Runs |-> Collect(heap[r], {best_candidate[r]})]
    /\ pc' = "train_log"
    /\ UNCHANGED <<evalVars, entry_params, config, exception, best_index, zoLocals, ep, log, best_reward,
                   worst_reward, best_episode, worst_episode, saved, rng,
                   evaluated>>

\* Lines 121-129, and the loop's step.
PopulationTrainLog ==
    /\ strategy = "pop"
    /\ pc = "train_log"
    /\ log' = [r \in Runs |-> Append(log[r], <<ep, reward[r]>>)]
    /\ best_reward' = [r \in Runs |->
           IF RGt(reward[r], best_reward[r]) THEN reward[r] ELSE best_reward[r]]
    /\ best_episode' = [r \in Runs |->
           IF RGt(reward[r], best_reward[r]) THEN ep ELSE best_episode[r]]
    /\ worst_reward' = [r \in Runs |->
           IF RLt(reward[r], worst_reward[r]) THEN reward[r] ELSE worst_reward[r]]
    /\ worst_episode' = [r \in Runs |->
           IF RLt(reward[r], worst_reward[r]) THEN ep ELSE worst_episode[r]]
    /\ ep' = ep + 1
    /\ evaluated' = [r \in Runs |-> <<>>]
    /\ best_index' = [r \in Runs |-> 0]
    /\ pc' = "train_loop"
    /\ UNCHANGED <<evalVars, entry_params, config, exception, i, seed, candidate, best_candidate, score,
                   best_score, zoLocals, reward, saved, heap, policy, rng>>

\* Lines 131-137: torch.save(policy.state_dict(), ...); None has no state_dict.
PopulationTrainSave ==
    /\ strategy = "pop"
    /\ pc = "train_loop"
    /\ ep > generations
    /\ IF \E r \in Runs : policy[r] = NoObject
       THEN /\ pc' = "raised"
            /\ exception' = "AttributeError"
            /\ UNCHANGED saved
       ELSE /\ pc' = "done"
            /\ saved' = [r \in Runs |-> Append(saved[r], heap[r][policy[r]])]
            /\ UNCHANGED exception
    /\ UNCHANGED <<evalVars, entry_params, config, popLocals, zoLocals, ep, reward, log, best_reward,
                   worst_reward, best_episode, worst_episode, heap, policy, rng,
                   evaluated>>

PopNext ==
    \/ PopulationMethodCall
    \/ PopulationPerturb
    \/ PopulationEvaluate
    \/ PopulationEvaluateRaises
    \/ PopulationSelect
    \/ PopulationMethodReturn
    \/ PopulationTrainLog
    \/ PopulationTrainSave

\* ------------------------------------------------------------ zeroth_order
\* (pos_score - neg_score) / 2 * perturbations[name]
GradientNotHalved(pos, neg, noise) == RMul(RSub(pos, neg), noise)

Gradient(pos, neg, noise) == RMul(RMul(RSub(pos, neg), Rat(1, 2)), noise)

\* param.data += learning_rate * gradient
StepIgnoringRate(param, rate, gradient) == RAdd(param, gradient)

Step(param, rate, gradient) == RAdd(param, RMul(FromInt(rate), gradient))

\* train line 122 calls zeroth_order; lines 86-94 run.
ZerothOrderCall ==
    /\ strategy = "zo"
    /\ pc = "train_loop"
    /\ ep < generations
    /\ \E z \in [Names -> RandnDraws] :
         LET noise == Noise(z, std_dev)
             pos == [r \in Runs |-> CloneRef(policy[r], FreshId({policy[r]}))]
             neg == [r \in Runs |->
                        CloneRef(policy[r], FreshId({policy[r], pos[r]}))]
         IN  /\ perturbations' = noise
             /\ policy_pos' = pos
             /\ policy_neg' = neg
             /\ heap' = [r \in Runs |->
                    AntitheticLoop(
                        Clone(Clone(heap[r], policy[r], pos[r]), policy[r], neg[r]),
                        pos[r], neg[r], policy[r], noise, 1)]
    /\ evaluated' = [r \in Runs |-> <<>>]
    /\ pc' = "zo_eval_pos"
    /\ entry_params' = [r \in Runs |-> heap[r][policy[r]]]
    /\ UNCHANGED <<evalVars, config, exception, popLocals, pos_score, neg_score,
                   trainLocals, policy, rng>>

\* Line 97: the positive candidate is evaluated, without a seed.
ZerothOrderEvaluatePos ==
    /\ pc = "zo_eval_pos"
    /\ \E ent \in EntropyDraws(eval_episodes, None) :
         LET out == [r \in Runs |->
                        EvaluatePolicy(heap[r][policy_pos[r]], eval_episodes, None,
                                       rng[r], ent[r])]
         IN  IF \E r \in Runs : out[r].raised
             THEN /\ pc' = "raised"
                  /\ exception' = "ZeroDivisionError"
                  /\ UNCHANGED <<pos_score, rng, evaluated>>
             ELSE /\ pc' = "zo_eval_neg"
                  /\ pos_score' = [r \in Runs |-> out[r].score]
                  /\ rng' = [r \in Runs |-> out[r].rng]
                  /\ evaluated' = [r \in Runs |-> Append(evaluated[r], out[r])]
                  /\ UNCHANGED exception
    /\ UNCHANGED <<evalVars, entry_params, config, popLocals, perturbations, policy_pos, policy_neg,
                   neg_score, trainLocals, heap, policy>>

\* Line 98: the negative candidate is evaluated, without a seed.
ZerothOrderEvaluateNeg ==
    /\ pc = "zo_eval_neg"
    /\ \E ent \in EntropyDraws(eval_episodes, None) :
         LET out == [r \in Runs |->
                        EvaluatePolicy(heap[r][policy_neg[r]], eval_episodes, None,
                                       rng[r], ent[r])]
         IN  /\ neg_score' = [r \in Runs |-> out[r].score]
             /\ rng' = [r \in Runs |-> out[r].rng]
             /\ evaluated' = [r \in Runs |-> Append(evaluated[r], out[r])]
    /\ pc' = "zo_update"
    /\ UNCHANGED <<evalVars, entry_params, config, exception, popLocals, perturbations, policy_pos,
                   policy_neg, pos_score, trainLocals, heap, policy>>

\* Lines 97, 98: a rollout of either evaluation raises.
ZerothOrderEvaluateRaises ==
    /\ pc \in {"zo_eval_pos", "zo_eval_neg"}
    /\ eval_episodes >= 1
    /\ pc' = Propagate(pc)
    /\ exception' = "RolloutError"
    /\ UNCHANGED <<evalVars, entry_params, config, popLocals, zoLocals,
                   trainLocals, heap, policy, rng, evaluated>>

\* Lines 101-103: the live policy is updated in place, name by name.
ZerothOrderUpdate ==
    /\ pc = "zo_update"
    /\ heap' = [r \in Runs |->
           [heap[r] EXCEPT ![policy[r]] = [n \in Names |->
               Step(heap[r][policy[r]][n], learning_rate,
                    Gradient(pos_score[r], neg_score[r], perturbations[n]))]]]
    /\ pc' = "zo_return"
    /\ UNCHANGED <<evalVars, entry_params, config, exception, popLocals, zoLocals, trainLocals, policy,
                   rng, evaluated>>

\* Line 106 returns max(pos_score, neg_score), which ends the call's local
\* variables; line 122 binds reward.
ZerothOrderReturn ==
    /\ pc = "zo_return"
    /\ reward' = [r \in Runs |-> PyMax(pos_score[r], neg_score[r])]
    /\ perturbations' = Garbage
    /\ policy_pos' = [r \in Runs |-> NoObject]
    /\ policy_neg' = [r \in Runs |-> NoObject]
    /\ pos_score' = [r \in Runs |-> NaN]
    /\ neg_score' = [r \in Runs |-> NaN]
    /\ heap' = [r \in Runs |-> Collect(heap[r], {policy[r]})]
    /\ pc' = "train_log"
    /\ UNCHANGED <<evalVars, entry_params, config, exception, popLocals, ep, log, best_reward,
                   worst_reward, best_episode, worst_episode, saved, policy, rng,
                   evaluated>>

\* Line 123, and the loop's step.
ZerothOrderTrainLog ==
    /\ strategy = "zo"
    /\ pc = "train_log"
    /\ log' = [r \in Runs |-> Append(log[r], <<ep, reward[r]>>)]
    /\ ep' = ep + 1
    /\ evaluated' = [r \in Runs |-> <<>>]
    /\ pc' = "train_loop"
    /\ entry_params' = [r \in Runs |-> Garbage]
    /\ UNCHANGED <<evalVars, config, exception, popLocals, zoLocals, reward, best_reward,
                   worst_reward, best_episode, worst_episode, saved, heap, policy,
                   rng>>

\* Lines 121, 125-126: range(1, NUM_EPISODES) is exhausted; the log is closed.
ZerothOrderTrainDone ==
    /\ strategy = "zo"
    /\ pc = "train_loop"
    /\ ep >= generations
    /\ pc' = "done"
    /\ UNCHANGED <<evalVars, entry_params, config, exception, popLocals, zoLocals, trainLocals, heap,
                   policy, rng, evaluated>>

ZoNext ==
    \/ ZerothOrderCall
    \/ ZerothOrderEvaluatePos
    \/ ZerothOrderEvaluateNeg
    \/ ZerothOrderEvaluateRaises
    \/ ZerothOrderUpdate
    \/ ZerothOrderReturn
    \/ ZerothOrderTrainLog
    \/ ZerothOrderTrainDone

Next == PopNext \/ ZoNext

Spec == Init /\ [][Next]_vars

\* ------------------------------------------- evaluate_policy, step by step
\* One call of evaluate_policy(policy_net, eval_episodes) against a simulation
\* that may report done after a few steps or never, and whose step may give any
\* reward, finite or not, or raise.

\* gym.wrappers.TimeLimit(self.env, max_episode_steps=500)
max_episode_steps == 500

\* TimeLimit.step: truncated once the steps counted reach the limit.
TruncatedNever(elapsed) == FALSE

Truncated(elapsed) == elapsed >= max_episode_steps

\* When the simulation reports done, counted in steps from reset.
Landings == (1 .. MaxLanding) \cup {None}

\* The rewards one env.step can give: a finite one, or a non-finite float.
StepRewards == {FromInt(1), NaN, PosInf, NegInf}

\* total_reward / episodes, episodes # 0
Mean(total, episodes) == RMul(total, Rat(1, episodes))

trainVars == <<config, pc, popLocals, zoLocals, trainLocals, heap, policy, rng,
               evaluated, entry_params>>

EvalInit ==
    /\ TrainInit
    /\ strategy = "zo" /\ generations = 1 /\ std_dev = 0 /\ learning_rate = 0
    /\ EvalEntry
    /\ epc = "for"

\* Lines 28-30: the next episode starts; TimeLimit.reset zeroes its counter.
EvaluateReset ==
    /\ epc = "for"
    /\ episode < eval_episodes
    /\ elapsed_steps' = 0
    /\ done' = FALSE
    /\ truncated' = FALSE
    /\ \E l \in Landings : lands_in' = l
    /\ epc' = "while"
    /\ UNCHANGED <<trainVars, exception, episode, total_reward, result, steps,
                   nonfinite>>

\* Lines 31-35: one pass of the while loop, env.step returning.  The call makes
\* no more than MaxEpisodes * max_episode_steps + 1 steps here.
EvaluateStep ==
    /\ epc = "while"
    /\ ~(done \/ truncated)
    /\ steps <= MaxEpisodes * max_episode_steps
    /\ \E reward_ \in StepRewards :
         /\ total_reward' = RAdd(total_reward, reward_)
         /\ nonfinite' = (nonfinite \/ ~IsFinite(reward_))
    /\ elapsed_steps' = elapsed_steps + 1
    /\ done' = (lands_in = 1)
    /\ truncated' = Truncated(elapsed_steps + 1)
    /\ lands_in' = IF lands_in = None THEN None ELSE lands_in - 1
    /\ steps' = steps + 1
    /\ UNCHANGED <<trainVars, exception, epc, episode, result>>

\* Lines 31-34: env.step (or the policy's forward pass) raises; nothing in
\* evaluate_policy catches it.
EvaluateStepRaises ==
    /\ epc = "while"
    /\ ~(done \/ truncated)
    /\ epc' = "raised"
    /\ exception' = "RolloutError"
    /\ UNCHANGED <<trainVars, episode, elapsed_steps, done, truncated,
                   total_reward, result, lands_in, steps, nonfinite>>

\* Line 31 ends the while loop; line 28 takes the next i.
EvaluateEpisodeEnd ==
    /\ epc = "while"
    /\ done \/ truncated
    /\ episode' = episode + 1
    /\ epc' = "for"
    /\ UNCHANGED <<trainVars, exception, elapsed_steps, done, truncated,
                   total_reward, result, lands_in, steps, nonfinite>>

\* Line 36: return total_reward / episodes; 0.0 / 0 raises.
EvaluateReturn ==
    /\ epc = "for"
    /\ episode >= eval_episodes
    /\ IF eval_episodes = 0
       THEN /\ epc' = "raised"
            /\ exception' = "ZeroDivisionError"
            /\ UNCHANGED result
       ELSE /\ epc' = "returned"
            /\ result' = Mean(total_reward, eval_episodes)
            /\ UNCHANGED exception
    /\ UNCHANGED <<trainVars, episode, elapsed_steps, done, truncated,
                   total_reward, lands_in, steps, nonfinite>>

EvalNext ==
    \/ EvaluateReset
    \/ EvaluateStep
    \/ EvaluateStepRaises
    \/ EvaluateEpisodeEnd
    \/ EvaluateReturn

\* The interpreter keeps running the call until it returns or raises.
EvalSpec == EvalInit /\ [][EvalNext]_vars /\ WF_vars(EvalNext)

\* ----------------------------------------------------------------- claims
\* The evaluate_policy calls of run r's current optimizer step, by position.
Calls(r) == 1 .. Len(evaluated[r])

\* C1: when population_method returns with population_size >= 1, every candidate
\* of the generation was evaluated, the returned reward is >= the mean reward
\* of each of them, and the returned policy is a candidate whose evaluated
\* reward is the returned reward.
C1_SelectedIsBest ==
    (strategy = "pop" /\ pc = "train_log" /\ population_size >= 1) =>
        \A r \in Runs :
            /\ Len(evaluated[r]) = population_size
            /\ \A j \in Calls(r) : RGe(reward[r], evaluated[r][j].score)
            /\ policy[r] # NoObject
            /\ \E j \in Calls(r) :
                   /\ evaluated[r][j].params = heap[r][policy[r]]
                   /\ evaluated[r][j].score = reward[r]

\* C1's case: a generation of several candidates returned, and some candidate
\* scored strictly less than the returned reward.
C1_Witness ==
    /\ strategy = "pop" /\ pc = "train_log" /\ population_size >= 2
    /\ \E r \in Runs : \E j \in Calls(r) : RGt(reward[r], evaluated[r][j].score)

\* C2: among the candidates evaluated so far in a generation, best_candidate is
\* the first (lowest index) that attains the greatest mean reward: every earlier
\* candidate scored strictly less, no later one scored more; it is the one
\* population_method returns.
C2_FirstSeenWinsTies ==
    (strategy = "pop" /\ pc \in {"pm_loop", "train_log"}) =>
        \A r \in Runs :
            Len(evaluated[r]) >= 1 =>
                LET j == best_index[r]
                    chosen == IF pc = "pm_loop" THEN best_candidate[r] ELSE policy[r]
                    value == IF pc = "pm_loop" THEN best_score[r] ELSE reward[r]
                IN  /\ j \in Calls(r)
                    /\ value = evaluated[r][j].score
                    /\ chosen # NoObject
                    /\ heap[r][chosen] = evaluated[r][j].params
                    /\ \A k \in Calls(r) :
                           /\ RGe(evaluated[r][j].score, evaluated[r][k].score)
                           /\ k < j => RGt(evaluated[r][j].score, evaluated[r][k].score)

\* C2's case: two different candidates tied for the greatest reward of a
\* generation, and the call returned.
C2_Witness ==
    /\ strategy = "pop" /\ pc = "train_log"
    /\ \E r \in Runs : \E j, k \in Calls(r) :
           /\ j < k
           /\ evaluated[r][j].score = reward[r]
           /\ evaluated[r][k].score = reward[r]
           /\ evaluated[r][j].params # evaluated[r][k].params

\* C3: with population_size <= 0 the population trainer never gets a
\* (policy, reward) result back, writes no log entry and never holds an absent
\* policy.
C3_NonPositivePopulationFailsFast ==
    (strategy = "pop" /\ population_size <= 0) =>
        /\ pc \notin {"train_log", "done"}
        /\ \A r \in Runs : log[r] = <<>> /\ policy[r] # NoObject

\* C4: every evaluate_policy call with N >= 1 episodes and an integer seed S
\* (0 included) resets episode i with S + i, and only a call without a seed
\* resets with None; two calls with the same policy, N and S return the same
\* mean reward.
C4_SeedGivesSeededResets ==
    eval_episodes >= 1 =>
        /\ \A r \in Runs : \A j \in Calls(r) :
               LET call == evaluated[r][j]
               IN  /\ Len(call.resets) = eval_episodes
                   /\ \A e \in 1 .. Len(call.resets) :
                          call.resets[e] =
                              IF call.seed = None THEN None ELSE call.seed + (e - 1)
        /\ \A r1, r2 \in Runs : \A j1 \in Calls(r1) : \A j2 \in Calls(r2) :
               (/\ evaluated[r1][j1].seed # None
                /\ evaluated[r1][j1].seed = evaluated[r2][j2].seed
                /\ evaluated[r1][j1].params = evaluated[r2][j2].params)
                   => evaluated[r1][j1].score = evaluated[r2][j2].score

\* C5: in a generation of the population strategy, whatever the shared seed,
\* episode e of every candidate is reset with one and the same concrete seed:
\* no reset is unseeded and all candidates' episodes start from the same states.
C5_CandidatesShareEpisodeSeeds ==
    strategy = "pop" =>
        \A r \in Runs : \A j, k \in Calls(r) :
            /\ \A e \in 1 .. Len(evaluated[r][j].resets) :
                   evaluated[r][j].resets[e] # None
            /\ evaluated[r][j].resets = evaluated[r][k].resets
            /\ evaluated[r][j].starts = evaluated[r][k].starts

\* C6: two completed runs of the population trainer under the same global seed
\* have logged the same sequence of (generation, reward) entries.
C6_RunsLogTheSame ==
    (strategy = "pop" /\ pc = "done") => log[1] = log[2]

\* C7: the writes that perturb a clone leave every parameter value of the
\* source policy as it was (population_method and zeroth_order), and the
\* zeroth-order update of the source leaves both clones as they were.
C7_CloneIndependence ==
    [][\A r \in Runs :
        /\ (pc = "pm_loop" /\ pc' = "pm_eval") =>
               heap'[r][policy[r]] = heap[r][policy[r]]
        /\ (pc = "train_loop" /\ pc' = "zo_eval_pos") =>
               heap'[r][policy[r]] = heap[r][policy[r]]
        /\ (pc = "zo_update" /\ pc' = "zo_return") =>
               /\ heap'[r][policy_pos[r]] = heap[r][policy_pos[r]]
               /\ heap'[r][policy_neg[r]] = heap[r][policy_neg[r]]]_vars

\* C7's case: a clone has been written with values other than the source's.
C7_Witness ==
    /\ strategy = "pop" /\ pc = "pm_eval"
    /\ \E r \in Runs :
           /\ candidate[r] # policy[r]
           /\ heap[r][candidate[r]] # heap[r][policy[r]]

\* C8: from the perturbation of a zeroth_order step until its update, for every
\* named tensor pos - original = noise and neg - original = -noise with the one
\* recorded noise, so both candidates are at the same distance from the original.
C8_AntitheticSymmetry ==
    pc \in {"zo_eval_pos", "zo_eval_neg", "zo_update"} =>
        \A r \in Runs : \A n \in Names :
            LET original == heap[r][policy[r]][n]
                pos == heap[r][policy_pos[r]][n]
                neg == heap[r][policy_neg[r]][n]
            IN  /\ RSub(pos, original) = perturbations[n]
                /\ RSub(neg, original) = RNeg(perturbations[n])
                /\ RAbs(RSub(pos, original)) = RAbs(RSub(neg, original))

\* C8's case: a step perturbed with non-zero noise, the candidates differing.
C8_Witness ==
    /\ pc = "zo_eval_neg"
    /\ \A n \in Names : perturbations[n] # FromInt(0)
    /\ \E r \in Runs : heap[r][policy_pos[r]] # heap[r][policy_neg[r]]

\* C9: with learning_rate = 0 the live policy of the zeroth-order trainer holds
\* its initial parameter values at every moment of the run.
C9_ZeroRateKeepsParameters ==
    (strategy = "zo" /\ learning_rate = 0) =>
        \A r \in Runs : policy[r] # NoObject /\ heap[r][policy[r]] = InitialParams

\* C9's case: in a second generation, with non-zero noise and two different
\* scores, the update has run with learning_rate = 0.
C9_Witness ==
    /\ strategy = "zo" /\ learning_rate = 0 /\ pc = "zo_return" /\ ep >= 2
    /\ \A n \in Names : perturbations[n] # FromInt(0)
    /\ \E r \in Runs : pos_score[r] # neg_score[r]

\* C10: with std_dev = 0, population size 3 and 2 episodes per evaluation, when
\* the generation's loop has ended every candidate holds the incoming policy's
\* values, all candidates scored the same, and the selected candidate holds the
\* incoming policy's values.
C10_ZeroNoiseGeneration ==
    (/\ strategy = "pop" /\ std_dev = 0 /\ population_size = 3 /\ eval_episodes = 2
     /\ pc = "pm_loop" /\ i = population_size) =>
        \A r \in Runs :
            /\ \A j \in Calls(r) : evaluated[r][j].params = heap[r][policy[r]]
            /\ \A j, k \in Calls(r) : evaluated[r][j].score = evaluated[r][k].score
            /\ best_candidate[r] # NoObject
            /\ heap[r][best_candidate[r]] = heap[r][policy[r]]

\* C11: with population_size = 1 the one object evaluated is the sampled
\* candidate, a clone other than the incoming policy; its score is compared
\* with -inf only; and population_method returns that candidate with its
\* reward, whatever the reward is.
C11_SingleCandidateAlwaysAccepted ==
    (strategy = "pop" /\ population_size = 1) =>
        \A r \in Runs :
            /\ pc = "pm_eval" =>
                   candidate[r] \notin {NoObject, policy[r]} /\ evaluated[r] = <<>>
            /\ pc = "pm_select" =>
                   best_score[r] = NegInf /\ best_candidate[r] = NoObject
            /\ pc = "train_log" =>
                   /\ Len(evaluated[r]) = 1
                   /\ policy[r] # NoObject
                   /\ heap[r][policy[r]] = evaluated[r][1].params
                   /\ reward[r] = evaluated[r][1].score

\* C11's case: a generation of one candidate returned that candidate although
\* it scored less than the policy the previous generation logged.
C11_Witness ==
    /\ strategy = "pop" /\ population_size = 1 /\ pc = "train_log"
    /\ \E r \in Runs :
           /\ Len(log[r]) >= 1
           /\ RLt(reward[r], log[r][Len(log[r])][2])
           /\ heap[r][policy[r]] = evaluated[r][1].params

\* C12: when train() has completed, for either strategy, the log of every run
\* holds exactly `generations` entries, and entry k carries generation index k.
C12_CompletedRunLogsEveryGeneration ==
    pc = "done" =>
        \A r \in Runs :
            /\ Len(log[r]) = generations
            /\ \A k \in 1 .. Len(log[r]) : log[r][k][1] = k

\* C13: when train() has completed, for either strategy, exactly one snapshot
\* has been saved, it holds the parameters of the policy the last generation
\* left, and none was saved before the run completed.
C13_FinalSnapshotSavedOnce ==
    /\ pc = "done" =>
           \A r \in Runs :
               /\ Len(saved[r]) = 1
               /\ policy[r] # NoObject
               /\ saved[r][1] = heap[r][policy[r]]
    /\ pc # "done" => \A r \in Runs : saved[r] = <<>>

\* The number of episodes a call with episode count n runs.
EpisodesRun(n) == IF n > 0 THEN n ELSE 0

\* C14: a call of evaluate_policy never has counted more than 500 steps in an
\* episode and cannot continue an episode that has reached 500, has made at
\* most episodes * 500 calls of env.step whatever the simulation reports, and
\* eventually returns or raises.
C14_EvaluationTerminates ==
    /\ [](/\ elapsed_steps <= max_episode_steps
          /\ (epc = "while" /\ ~(done \/ truncated)) =>
                 elapsed_steps < max_episode_steps
          /\ episode <= EpisodesRun(eval_episodes)
          /\ steps <= EpisodesRun(eval_episodes) * max_episode_steps)
    /\ <>(epc \in {"returned", "raised"})

\* C14's case: the simulation never reported done in any of several episodes,
\* every episode was truncated at the step limit, and the call returned.
C14_Witness ==
    /\ epc = "returned"
    /\ eval_episodes >= 2
    /\ truncated /\ ~done
    /\ steps = eval_episodes * max_episode_steps

\* C15: with eval_episodes <= 0 (and a population to evaluate) no call of
\* evaluate_policy ever returns a reward, no optimizer step returns, and no log
\* entry is written.
C15_NonPositiveEpisodesRejected ==
    (eval_episodes <= 0 /\ (strategy = "zo" \/ population_size >= 1)) =>
        /\ pc \notin {"pm_select", "zo_eval_neg", "train_log"}
        /\ \A r \in Runs : evaluated[r] = <<>> /\ log[r] = <<>>

\* C16: a call of evaluate_policy in which some env.step gave a non-finite
\* reward does not return, and no call returns a non-finite mean reward.
C16_NonFiniteRewardIsFatal ==
    epc = "returned" => ~nonfinite /\ IsFinite(result)

\* C17: once a rollout has raised during generation ep, the run is over (the
\* trainer is where an uncaught exception leaves it and nothing changes any
\* more: no later generation, no retry), the log holds the entries of the
\* generations before ep only, no snapshot was saved, and the zeroth-order
\* live policy holds the values it had when generation ep started.
C17_FailedRolloutAborts ==
    /\ [](exception = "RolloutError" =>
             /\ pc = "raised"
             /\ \A r \in Runs :
                    /\ Len(log[r]) = ep - 1
                    /\ saved[r] = <<>>
                    /\ strategy = "zo" =>
                           heap[r][policy[r]] = entry_params[r])
    /\ [][exception = "RolloutError" => UNCHANGED vars]_vars

\* C17's case: the rollout of the negative candidate raised in a generation
\* after the first, the earlier generations having changed the live policy.
C17_Witness ==
    /\ exception = "RolloutError" /\ strategy = "zo" /\ ep >= 2
    /\ \E r \in Runs :
           /\ Len(evaluated[r]) = 1
           /\ Len(log[r]) = ep - 1
           /\ heap[r][policy[r]] # InitialParams

\* C18: in a zeroth_order step the live policy holds the values it had on entry
\* while the candidates are evaluated, the positive candidate is evaluated
\* first and the negative one second, and the only step that changes a value of
\* the live policy is the update, taken when both scores are known.
C18_LivePolicyUntouchedUntilUpdate ==
    /\ [](pc \in {"zo_eval_pos", "zo_eval_neg", "zo_update"} =>
             \A r \in Runs :
                 /\ heap[r][policy[r]] = entry_params[r]
                 /\ pc = "zo_eval_pos" => evaluated[r] = <<>>
                 /\ pc \in {"zo_eval_neg", "zo_update"} =>
                        /\ Len(evaluated[r]) >= 1
                        /\ evaluated[r][1].params = heap[r][policy_pos[r]]
                        /\ evaluated[r][1].score = pos_score[r]
                 /\ pc = "zo_eval_neg" => Len(evaluated[r]) = 1
                 /\ pc = "zo_update" =>
                        /\ Len(evaluated[r]) = 2
                        /\ evaluated[r][2].params = heap[r][policy_neg[r]]
                        /\ evaluated[r][2].score = neg_score[r])
    /\ [][strategy = "zo" =>
             \A r \in Runs :
                 heap'[r][policy[r]] # heap[r][policy[r]] =>
                     pc = "zo_update" /\ pc' = "zo_return"]_vars

\* C18's case: two different candidates were evaluated, then the update changed
\* the live policy.
C18_Witness ==
    /\ strategy = "zo" /\ pc = "zo_return"
    /\ \E r \in Runs :
           /\ Len(evaluated[r]) = 2
           /\ evaluated[r][1].params # evaluated[r][2].params
           /\ heap[r][policy[r]] # entry_params[r]

\* C19: when the update of a zeroth_order step is done, every named tensor of
\* the live policy equals its value on entry plus
\* learning_rate * ((pos_score - neg_score) / 2) * noise[name], with the one
\* half-difference for all names; the names are those on entry; and the live
\* policy is, in every generation, the object train created.
C19_UpdateIsScaledNoise ==
    strategy = "zo" =>
        \A r \in Runs :
            /\ policy[r] = 1
            /\ DOMAIN heap[r][policy[r]] = Names
            /\ pc = "zo_return" =>
                   LET diff == RSub(pos_score[r], neg_score[r])
                       half == Rat(Num(diff), 2 * Den(diff))
                   IN  \A n \in Names :
                           heap[r][policy[r]][n] =
                               RAdd(entry_params[r][n],
                                    RMul(FromInt(learning_rate),
                                         RMul(half, perturbations[n])))

\* C19's case: in a generation after the first, with learning_rate # 0,
\* non-zero noise and two different scores, the update changed every tensor.
C19_Witness ==
    /\ strategy = "zo" /\ pc = "zo_return" /\ learning_rate # 0 /\ ep >= 2
    /\ \E r \in Runs :
           /\ pos_score[r] # neg_score[r]
           /\ entry_params[r] # InitialParams
           /\ \A n \in Names : heap[r][policy[r]][n] # entry_params[r][n]

\* C20: in the population trainer, once a generation is logged, best_reward is
\* the greatest and worst_reward the least reward logged so far, and
\* best_episode / worst_episode is the first generation that attained it, a
\* generation among those logged.
C20_BestWorstTracking ==
    strategy = "pop" =>
        \A r \in Runs :
            Len(log[r]) >= 1 =>
                /\ best_episode[r] \in 1 .. Len(log[r])
                /\ worst_episode[r] \in 1 .. Len(log[r])
                /\ log[r][best_episode[r]] = <<best_episode[r], best_reward[r]>>
                /\ log[r][worst_episode[r]] = <<worst_episode[r], worst_reward[r]>>
                /\ \A k \in 1 .. Len(log[r]) :
                       /\ RGe(best_reward[r], log[r][k][2])
                       /\ RGe(log[r][k][2], worst_reward[r])
                       /\ k < best_episode[r] => RGt(best_reward[r], log[r][k][2])
                       /\ k < worst_episode[r] => RLt(worst_reward[r], log[r][k][2])

====
